---- MODULE Spec2Model ----
(***************************************************************************)
(* Model of package primes (docwalter/primes): the bit vector primitives,  *)
(* the index mapping, the prime set with its sieve, the iterator, the      *)
(* smallest-factor query and the factorizer with its recursive             *)
(* precomputation.                                                         *)
(*                                                                         *)
(* A uint64 word of the bit vector is the set of its set bit positions     *)
(* (a subset of 0..63); []uint64 is a function from 0..len-1 to words.     *)
(* Numbers are integers; every value the model reaches is far below 2^31.  *)
(***************************************************************************)
EXTENDS Integers, Sequences, FiniteSets, TLC

VARIABLES limit, set, it, yielded, res, fb, frames, fz

vars == <<limit, set, it, yielded, res, fb, frames, fz>>

(***************************************************************************)
(* Bounds of the model.                                                    *)
(***************************************************************************)
\* largest limit handed to NewPrimeSet: past 193..196, the first limits
\* whose bit index is a multiple of 64, and into the two-word sets
MaxLimit == 198
\* queries reach this far past LargestNumber()
Beyond == 8
\* largest bound handed to Factorizer
MaxBound == 250

WordBits == 64

NoValue == [none |-> TRUE]

Min(S) == CHOOSE x \in S : \A y \in S : x <= y
Max(S) == CHOOSE x \in S : \A y \in S : x >= y

(***************************************************************************)
(* bits.go                                                                 *)
(***************************************************************************)
len(bits) == Cardinality(DOMAIN bits)

\* w >> k on a uint64
ShiftRight(w, k) == {b - k : b \in {x \in w : x >= k}}

\* uint64(1) << k: Go yields 0 once the shift count reaches the width
OneShiftLeft(k) == IF k >= WordBits THEN {} ELSE {k}

\* the uint64 bit pattern of a number below 2^31
Word(n) == {k \in 0..30 : (n \div (2 ^ k)) % 2 = 1}

wordMask(i) == [word |-> i \div WordBits, mask |-> OneShiftLeft(i % WordBits)]

\* an index past the slice is a runtime panic
InRange(bits, i) == wordMask(i).word < len(bits)

clearBit(bits, i) ==
    LET wm == wordMask(i)
    IN  [bits EXCEPT ![wm.word] = @ \ wm.mask]

getBit(bits, i) ==
    LET wm == wordMask(i)
    IN  (bits[wm.word] \cap wm.mask) # {}

setAllBits(bits) == [w \in DOMAIN bits |-> 0..(WordBits - 1)]

numberOfLeadingZeroes(w) == IF w = {} THEN 64 ELSE 63 - Max(w)

numberOfTrailingZeroes(w) == IF w = {} THEN 64 ELSE Min(w)

RECURSIVE nextSetWord(_, _)
nextSetWord(bits, word) ==
    IF word < len(bits)
    THEN IF bits[word] # {}
         THEN [n |-> word * WordBits + numberOfTrailingZeroes(bits[word]), found |-> TRUE]
         ELSE nextSetWord(bits, word + 1)
    ELSE [n |-> 0, found |-> FALSE]

nextSetBit(bits, i) ==
    LET word == i \div WordBits
    IN  IF word >= len(bits)
        THEN [n |-> 0, found |-> FALSE]
        ELSE LET w == ShiftRight(bits[word], i % WordBits)
             IN  IF w # {}
                 THEN [n |-> i + numberOfTrailingZeroes(w), found |-> TRUE]
                 ELSE nextSetWord(bits, word + 1)

RECURSIVE highestSetWord(_, _)
highestSetWord(bits, word) ==
    IF word >= 0
    THEN IF bits[word] # {}
         THEN [n |-> word * WordBits + 63 - numberOfLeadingZeroes(bits[word]), found |-> TRUE]
         ELSE highestSetWord(bits, word - 1)
    ELSE [n |-> 0, found |-> FALSE]

highestSetBit(bits) == highestSetWord(bits, len(bits) - 1)

(***************************************************************************)
(* Index mapping                                                           *)
(***************************************************************************)
numberToIndex(n) ==
    IF n < 5
    THEN 0
    ELSE LET x2 == n \div 2
             x3 == n \div 3
             x23 == n \div 6
         IN  n - (x2 + x3 - x23) - 1

\* indexToNumber adding 2 at the odd indices instead of the even ones
indexToNumberOddStep(i) ==
    IF i = 0
    THEN 3
    ELSE 5 + 6 * ((i - 1) \div 2) + (IF i % 2 = 1 THEN 2 ELSE 0)

indexToNumber(i) ==
    IF i = 0
    THEN 3
    ELSE 5 + 6 * ((i - 1) \div 2) + (IF i % 2 = 0 THEN 2 ELSE 0)

\* the number a uint64 bit pattern stands for
RECURSIVE wordValue(_)
wordValue(w) ==
    IF w = {}
    THEN 0
    ELSE LET k == Min(w)
         IN  2 ^ k + wordValue(w \ {k})

\* numberToIndex as the later source file has it, with x2 := n >> 1
numberToIndexShifted(n) ==
    IF n < 5
    THEN 0
    ELSE LET x2 == wordValue(ShiftRight(Word(n), 1))
             x3 == n \div 3
             x23 == n \div 6
         IN  n - (x2 + x3 - x23) - 1

(***************************************************************************)
(* Prime set                                                               *)
(***************************************************************************)
\* sieveMultiples clearing the bit of every multiple, those of 3 included
RECURSIVE sieveMultiplesOfThreeToo(_, _, _, _)
sieveMultiplesOfThreeToo(bits, n, d, lim) ==
    IF n <= lim
    THEN sieveMultiplesOfThreeToo(clearBit(bits, numberToIndex(n)), n + d, d, lim)
    ELSE bits

RECURSIVE sieveMultiples(_, _, _, _)
sieveMultiples(bits, n, d, lim) ==
    IF n <= lim
    THEN sieveMultiples(IF n % 3 # 0 THEN clearBit(bits, numberToIndex(n)) ELSE bits,
                        n + d, d, lim)
    ELSE bits

RECURSIVE sievePrimes(_, _, _, _)
sievePrimes(bits, i, found, lim) ==
    IF found
    THEN LET p == indexToNumber(i)
             cleared == sieveMultiples(bits, p * 5, p * 2, lim)
             nxt == nextSetBit(cleared, i + 1)
         IN  sievePrimes(cleared, nxt.n, nxt.found, lim)
    ELSE bits

calculatePrimeBitSet(bits) ==
    LET highestbitindex == len(bits) * WordBits - 1
    IN  sievePrimes(setAllBits(bits), 0, TRUE, indexToNumber(highestbitindex))

\* what a call hands back: a value, or a runtime panic
Returned(v) == [panic |-> FALSE, value |-> v]

Panicked == [panic |-> TRUE]

\* the number of words NewPrimeSet allocates
wordsFor(lim) ==
    LET i == numberToIndex(lim)
    IN  i \div WordBits + (IF i % WordBits # 0 THEN 1 ELSE 0)

\* panics for a limit below 5
NewPrimeSet(lim) ==
    IF lim < 5
    THEN Panicked
    ELSE LET words == wordsFor(lim)
             bits == calculatePrimeBitSet([w \in 0..(words - 1) |-> {}])
         IN  [bits |-> bits,
              largestPrime |-> indexToNumber(highestSetBit(bits).n),
              largestNumber |-> indexToNumber(len(bits) * WordBits - 1)]

LargestPrime(s) == s.largestPrime

LargestNumber(s) == s.largestNumber

\* const quickcheck = uint64(0x816d129a64b4cb6f), most significant digit first
quickcheckDigits == <<8, 1, 6, 13, 1, 2, 9, 10, 6, 4, 11, 4, 12, 11, 6, 15>>

quickcheck ==
    {k \in 0..(WordBits - 1) : (quickcheckDigits[16 - (k \div 4)] \div (2 ^ (k % 4))) % 2 = 1}

\* (n - 1) >> 1 on a uint64: n = 0 wraps to 2^63 - 1, a shift count past the width
quickCheckShift(n) == IF n = 0 THEN WordBits ELSE (n - 1) \div 2

\* getBit panics on an index past the slice
IsPrime(s, n) ==
    IF n <= 63
    THEN Returned((quickcheck \cap OneShiftLeft(quickCheckShift(n))) # {})
    ELSE IF n % 2 = 0 \/ n % 3 = 0
         THEN Returned(FALSE)
         ELSE LET i == numberToIndex(n)
              IN  IF i > 0
                  THEN IF InRange(s.bits, i) THEN Returned(getBit(s.bits, i)) ELSE Panicked
                  ELSE Returned(FALSE)

(***************************************************************************)
(* Iterator                                                                *)
(***************************************************************************)
\* iteratorScan without the comparison of the prime found against start
iteratorScanUnchecked(s, start, i) ==
    LET r == nextSetBit(s.bits, i)
    IN  IF ~r.found
        THEN [nextIndex |-> 0, nextPrime |-> 0]
        ELSE [nextIndex |-> r.n, nextPrime |-> indexToNumber(r.n)]

RECURSIVE iteratorScan(_, _, _)
iteratorScan(s, start, i) ==
    LET r == nextSetBit(s.bits, i)
    IN  IF ~r.found
        THEN [nextIndex |-> 0, nextPrime |-> 0]
        ELSE LET p == indexToNumber(r.n)
             IN  IF p >= start
                 THEN [nextIndex |-> r.n, nextPrime |-> p]
                 ELSE iteratorScan(s, start, i + 1)

Iterator(s, start) ==
    IF start <= 2
    THEN [nextIndex |-> 0, nextPrime |-> 2]
    ELSE iteratorScan(s, start, numberToIndex(start))

\* IteratorNext resuming its scan one bit too far
IteratorNextSkipping(s, i) ==
    IF i.nextPrime = 0
    THEN [it |-> i, value |-> 0, found |-> FALSE]
    ELSE IF i.nextPrime = 2
         THEN [it |-> [nextIndex |-> 0, nextPrime |-> 3], value |-> 2, found |-> TRUE]
         ELSE LET r == nextSetBit(s.bits, i.nextIndex + 2)
              IN  [it |-> [nextIndex |-> r.n,
                           nextPrime |-> IF r.found THEN indexToNumber(r.n) ELSE 0],
                   value |-> i.nextPrime, found |-> TRUE]

\* Next(): the iterator after the call, the value returned and the status
IteratorNext(s, i) ==
    IF i.nextPrime = 0
    THEN [it |-> i, value |-> 0, found |-> FALSE]
    ELSE IF i.nextPrime = 2
         THEN [it |-> [nextIndex |-> 0, nextPrime |-> 3], value |-> 2, found |-> TRUE]
         ELSE LET r == nextSetBit(s.bits, i.nextIndex + 1)
              IN  [it |-> [nextIndex |-> r.n,
                           nextPrime |-> IF r.found THEN indexToNumber(r.n) ELSE 0],
                   value |-> i.nextPrime, found |-> TRUE]

(***************************************************************************)
(* Smallest factor                                                         *)
(***************************************************************************)
\* uint64(math.Ceil(math.Sqrt(float64(n)))): the least k with k * k >= n, which
\* the float64 computation yields exactly for the numbers modelled; found by
\* bisection, k * k >= n being written k >= ceil(n / k)
RECURSIVE ceilSqrtIn(_, _, _)
ceilSqrtIn(n, lo, hi) ==
    IF lo >= hi
    THEN hi
    ELSE LET mid == (lo + hi) \div 2
         IN  IF mid >= (n + mid - 1) \div mid
             THEN ceilSqrtIn(n, lo, mid)
             ELSE ceilSqrtIn(n, mid + 1, hi)

ceilSqrt(n) == IF n = 0 THEN 0 ELSE ceilSqrtIn(n, 1, n)

\* smallestFactorLoop deciding by n, not by its root, whether the set suffices
RECURSIVE smallestFactorLoopByNumber(_, _, _, _)
smallestFactorLoopByNumber(s, n, lim, step) ==
    IF step.found /\ step.value <= lim
    THEN IF n % step.value = 0
         THEN [value |-> step.value, found |-> TRUE]
         ELSE smallestFactorLoopByNumber(s, n, lim, IteratorNext(s, step.it))
    ELSE IF n > LargestNumber(s)
         THEN [value |-> n, found |-> FALSE]
         ELSE [value |-> n, found |-> TRUE]

RECURSIVE smallestFactorLoop(_, _, _, _)
smallestFactorLoop(s, n, lim, step) ==
    IF step.found /\ step.value <= lim
    THEN IF n % step.value = 0
         THEN [value |-> step.value, found |-> TRUE]
         ELSE smallestFactorLoop(s, n, lim, IteratorNext(s, step.it))
    ELSE IF lim > LargestNumber(s)
         THEN [value |-> n, found |-> FALSE]
         ELSE [value |-> n, found |-> TRUE]

SmallestFactorOf(s, n) ==
    IF n = 0
    THEN [value |-> 0, found |-> FALSE]
    ELSE smallestFactorLoop(s, n, ceilSqrt(n), IteratorNext(s, Iterator(s, 0)))

(***************************************************************************)
(* Factorizer                                                              *)
(***************************************************************************)
\* const maxuint = uint64(0xffffffffffffffff), in digits of base 65536, most
\* significant first
maxuintDigits == <<65535, 65535, 65535, 65535>>

\* the uint64 x below 2^31 in the same digits
digitsOf(x) == <<0, 0, x \div 65536, x % 65536>>

\* long division of the digits ds by d, from digit k on with remainder r
RECURSIVE divideDigits(_, _, _, _)
divideDigits(ds, k, r, d) ==
    IF k > Len(ds)
    THEN <<>>
    ELSE LET cur == r * 65536 + ds[k]
         IN  <<cur \div d>> \o divideDigits(ds, k + 1, cur % d, d)

RECURSIVE digitsGreater(_, _, _)
digitsGreater(a, b, k) ==
    IF k > Len(a)
    THEN FALSE
    ELSE IF a[k] # b[k] THEN a[k] > b[k] ELSE digitsGreater(a, b, k + 1)

\* x > maxuint / d, for d > 0
exceedsMaxuintOver(x, d) ==
    digitsGreater(digitsOf(x), divideDigits(maxuintDigits, 1, 0, d), 1)

\* the loop of newFactorizerBuilder that determines the maximum recursion depth;
\* step is the last result of it.Next()
RECURSIVE maxDepthLoop(_, _, _, _, _)
maxDepthLoop(s, max, maxDepth, test, step) ==
    IF step.found /\ test < max /\ ~exceedsMaxuintOver(test, step.value)
    THEN maxDepthLoop(s, max, maxDepth + 1, test * step.value, IteratorNext(s, step.it))
    ELSE maxDepth

newFactorizerBuilder(s, max) ==
    LET maxDepth == maxDepthLoop(s, max, 0, 1, IteratorNext(s, Iterator(s, 5)))
    IN  [factors |-> [i \in 0..numberToIndex(max) |-> 0],
         writes |-> [i \in 0..numberToIndex(max) |-> 0],
         max |-> max,
         stack |-> [k \in 0..maxDepth |-> 0],
         sp |-> 1,
         maxDepth |-> maxDepth]

\* b.stack[k] = v; an index past the slice is a runtime panic
stackWrite(b, k, v) ==
    IF k \in DOMAIN b.stack THEN [b EXCEPT !.stack[k] = v] ELSE [b EXCEPT !.pc = "panic"]

\* b.factors[numberToIndex(n)] = v; writes counts the assignments to each entry
factorsWrite(b, n, v) ==
    IF numberToIndex(n) \in DOMAIN b.factors
    THEN [b EXCEPT !.factors[numberToIndex(n)] = v, !.writes[numberToIndex(n)] = @ + 1]
    ELSE [b EXCEPT !.pc = "panic"]

\* the loop condition of build()
buildContinues(b) == b.ok /\ b.p <= b.max

\* whether build() descends into initRecursively for the prime p
buildRecurses(b) == b.p < b.max \div 2

\* levelContinues without the comparison of prime against stack[0]
levelContinuesPastLargest(b, f) == f.ok /\ f.base <= b.max \div f.prime

\* the condition of the loop over the primes of one recursion level
levelContinues(b, f) == f.ok /\ f.base <= b.max \div f.prime /\ f.prime <= b.stack[0]

\* skipRecursion with the first comparison off by one
skipRecursionEarly(b, f) ==
    f.i >= b.max \div f.next \/ b.sp = b.maxDepth \/ f.next > b.stack[0]

\* the three reasons for which initRecursively does not recurse
skipRecursion(b, f) ==
    f.i > b.max \div f.next \/ b.sp = b.maxDepth \/ f.next > b.stack[0]

\* n /= 3 while n%3 == 0
RECURSIVE divideOutThrees(_)
divideOutThrees(n) == IF n % 3 = 0 THEN divideOutThrees(n \div 3) ELSE n

\* n >> k on a number, a shift by the whole width giving 0
numberShiftRight(n, k) == IF k >= WordBits THEN 0 ELSE n \div (2 ^ k)

LargestFactorOf(f, n) ==
    LET n1 == numberShiftRight(n, numberOfTrailingZeroes(Word(n)))
    IN  IF n1 = 0
        THEN [value |-> 0, found |-> FALSE]
        ELSE IF n1 = 1
             THEN [value |-> 2, found |-> TRUE]
             ELSE LET n2 == divideOutThrees(n1)
                  IN  IF n2 = 1
                      THEN [value |-> 3, found |-> TRUE]
                      ELSE IF n2 > f.largestNumber
                           THEN [value |-> 0, found |-> FALSE]
                           ELSE [value |-> f.factors[numberToIndex(n2)], found |-> TRUE]

(***************************************************************************)
(* The client: one call sequence per behaviour                             *)
(***************************************************************************)
\* the limits of the sets queried: one too small, the least, the README's, and
\* those around the first whose bit index is a multiple of 64
Limits == {4, 5, 100} \cup (193..MaxLimit)

Constructed == set # NoValue /\ set # Panicked

Queries == IF ~Constructed THEN {} ELSE 0..(LargestNumber(set) + Beyond)

\* numbers just past the set, and products of two of them
PastSet ==
    IF ~Constructed THEN {} ELSE (LargestNumber(set) + 1)..(LargestNumber(set) + Beyond)

FarQueries == {a * b : a, b \in PastSet}

Init ==
    /\ limit = 0
    /\ set = NoValue
    /\ it = NoValue
    /\ yielded = <<>>
    /\ res = NoValue
    /\ fb = NoValue
    /\ frames = <<>>
    /\ fz = NoValue

Idle == Constructed /\ it = NoValue /\ res = NoValue /\ fb = NoValue /\ fz = NoValue

CallNewPrimeSet(L) ==
    /\ set = NoValue
    /\ limit' = L
    /\ set' = NewPrimeSet(L)
    /\ UNCHANGED <<it, yielded, res, fb, frames, fz>>

CallIsPrime(n) ==
    /\ Idle
    /\ res' = [op |-> "IsPrime", n |-> n, ret |-> IsPrime(set, n)]
    /\ UNCHANGED <<limit, set, it, yielded, fb, frames, fz>>

CallSmallestFactorOf(n) ==
    /\ Idle
    /\ res' = [op |-> "SmallestFactorOf", n |-> n, ret |-> SmallestFactorOf(set, n)]
    /\ UNCHANGED <<limit, set, it, yielded, fb, frames, fz>>

CallIterator(start) ==
    /\ Idle
    /\ it' = [start |-> start, done |-> FALSE] @@ Iterator(set, start)
    /\ UNCHANGED <<limit, set, yielded, res, fb, frames, fz>>

CallNext ==
    /\ it # NoValue
    /\ ~it.done
    /\ LET r == IteratorNext(set, it)
       IN  /\ it' = [it EXCEPT !.nextIndex = r.it.nextIndex,
                               !.nextPrime = r.it.nextPrime,
                               !.done = ~r.found]
           /\ yielded' = IF r.found THEN Append(yielded, r.value) ELSE yielded
    /\ UNCHANGED <<limit, set, res, fb, frames, fz>>

Next ==
    \/ \E L \in Limits : CallNewPrimeSet(L)
    \/ \E n \in Queries : CallIsPrime(n)
    \/ \E n \in Queries \cup FarQueries : CallSmallestFactorOf(n)
    \/ \E start \in Queries : CallIterator(start)
    \/ CallNext

Spec == Init /\ [][Next]_vars

(***************************************************************************)
(* Factorizer(max): newFactorizerBuilder, then build() step by step.       *)
(* fb is the factorizerBuilder, with the position of build() in pc and its *)
(* locals it, p, ok; frames are the activations of initRecursively, the    *)
(* innermost last, each with its locals and its position:                  *)
(*   enter     before the first statement                                  *)
(*   outer     at the test of the loop over the primes of this level       *)
(*   inner     at the test of the loop over the powers of prime            *)
(*   returned  after the recursive call, before b.sp--                     *)
(*   after     past the loop over the powers                               *)
(***************************************************************************)
newFrame(base) ==
    [base |-> base, pc |-> "enter", it |-> [nextIndex |-> 0, nextPrime |-> 0],
     prime |-> 0, ok |-> FALSE, next |-> 0, nextok |-> FALSE, i |-> 0]

top == frames[Len(frames)]

setTop(f) == [frames EXCEPT ![Len(frames)] = f]

Building(pc) == fb # NoValue /\ fb.pc = pc

InFrame(pc) == Building("init") /\ frames # <<>> /\ top.pc = pc

\* a panic ends the build where it stands
stepTo(b, pc) == IF b.pc = "panic" THEN b ELSE [b EXCEPT !.pc = pc]

\* initRecursively returns: to the calling activation, or to build()
Return ==
    /\ frames' = SubSeq(frames, 1, Len(frames) - 1)
    /\ fb' = IF Len(frames) = 1 THEN [fb EXCEPT !.pc = "advance"] ELSE fb

CallFactorizer(max) ==
    /\ Idle
    /\ LET step == IteratorNext(set, Iterator(set, 5))
       IN  fb' = newFactorizerBuilder(set, max)
                   @@ [pc |-> "build", it |-> step.it, p |-> step.value, ok |-> step.found]
    /\ frames' = <<>>
    /\ UNCHANGED <<limit, set, it, yielded, res, fz>>

\* the test of the loop of build() and its body up to the call or the end
BuildLoop ==
    /\ Building("build")
    /\ IF buildContinues(fb)
       THEN LET marked == factorsWrite(fb, fb.p, fb.p)
            IN  IF buildRecurses(fb)
                THEN /\ fb' = stepTo(stackWrite(stackWrite(marked, 0, fb.p), 1, 5), "init")
                     /\ frames' = <<newFrame(fb.p)>>
                     /\ fz' = fz
                ELSE /\ fb' = stepTo(marked, "advance")
                     /\ UNCHANGED <<frames, fz>>
       ELSE /\ fz' = [factors |-> fb.factors, largestNumber |-> fb.max]
            /\ fb' = [fb EXCEPT !.pc = "done"]
            /\ frames' = frames
    /\ UNCHANGED <<limit, set, it, yielded, res>>

\* p, ok = it.Next() at the end of the body of the loop of build()
BuildAdvance ==
    /\ Building("advance")
    /\ LET step == IteratorNext(set, fb.it)
       IN  fb' = [fb EXCEPT !.it = step.it, !.p = step.value, !.ok = step.found,
                            !.pc = "build"]
    /\ UNCHANGED <<limit, set, it, yielded, res, frames, fz>>

InitEnter ==
    /\ InFrame("enter")
    /\ LET p == fb.stack[fb.sp]
           step == IteratorNext(set, Iterator(set, p))
       IN  frames' = setTop([top EXCEPT !.it = step.it, !.prime = step.value,
                                        !.ok = step.found, !.pc = "outer"])
    /\ UNCHANGED <<limit, set, it, yielded, res, fb, fz>>

InitOuter ==
    /\ InFrame("outer")
    /\ IF levelContinues(fb, top)
       THEN LET step == IteratorNext(set, top.it)
            IN  /\ fb' = IF fb.sp < fb.maxDepth
                         THEN stackWrite(fb, fb.sp + 1, step.value)
                         ELSE fb
                /\ frames' = setTop([top EXCEPT !.it = step.it, !.next = step.value,
                                                !.nextok = step.found,
                                                !.i = top.base * top.prime,
                                                !.pc = "inner"])
       ELSE Return
    /\ UNCHANGED <<limit, set, it, yielded, res, fz>>

\* the division maxuint/next panics when next is 0, the value Next() returns at
\* the end of the set
InitInner ==
    /\ InFrame("inner")
    /\ IF top.i <= fb.max
       THEN LET marked == factorsWrite(fb, top.i, fb.stack[0])
            IN  IF top.next = 0
                THEN /\ fb' = [marked EXCEPT !.pc = "panic"]
                     /\ frames' = frames
                ELSE IF exceedsMaxuintOver(top.i, top.next)
                     THEN /\ fb' = marked
                          /\ frames' = setTop([top EXCEPT !.pc = "after"])
                     ELSE IF skipRecursion(marked, top)
                          THEN /\ fb' = marked
                               /\ frames' = setTop([top EXCEPT !.i = top.i * top.prime])
                          ELSE /\ fb' = [marked EXCEPT !.sp = @ + 1]
                               /\ frames' = Append(setTop([top EXCEPT !.pc = "returned"]),
                                                   newFrame(top.i))
       ELSE /\ fb' = fb
            /\ frames' = setTop([top EXCEPT !.pc = "after"])
    /\ UNCHANGED <<limit, set, it, yielded, res, fz>>

\* InitAfterCall without b.sp--
InitAfterCallWithoutPop ==
    /\ InFrame("returned")
    /\ fb' = fb
    /\ frames' = IF exceedsMaxuintOver(top.i, top.prime)
                 THEN setTop([top EXCEPT !.pc = "after"])
                 ELSE setTop([top EXCEPT !.i = top.i * top.prime, !.pc = "inner"])
    /\ UNCHANGED <<limit, set, it, yielded, res, fz>>

InitAfterCall ==
    /\ InFrame("returned")
    /\ fb' = [fb EXCEPT !.sp = @ - 1]
    /\ frames' = IF exceedsMaxuintOver(top.i, top.prime)
                 THEN setTop([top EXCEPT !.pc = "after"])
                 ELSE setTop([top EXCEPT !.i = top.i * top.prime, !.pc = "inner"])
    /\ UNCHANGED <<limit, set, it, yielded, res, fz>>

InitAfter ==
    /\ InFrame("after")
    /\ IF top.next = 0
       THEN /\ fb' = [fb EXCEPT !.pc = "panic"]
            /\ frames' = frames
       ELSE IF exceedsMaxuintOver(top.base, top.next)
            THEN Return
            ELSE /\ fb' = fb
                 /\ frames' = setTop([top EXCEPT !.prime = top.next, !.ok = top.nextok,
                                                 !.pc = "outer"])
    /\ UNCHANGED <<limit, set, it, yielded, res, fz>>

CallLargestFactorOf(n) ==
    /\ fz # NoValue
    /\ res = NoValue
    /\ res' = [op |-> "LargestFactorOf", n |-> n, ret |-> LargestFactorOf(fz, n)]
    /\ UNCHANGED <<limit, set, it, yielded, fb, frames, fz>>

\* the limits of the sets a factorizer is built from: the least, the first whose
\* bit index is a multiple of 64, and one that covers every bound
FactorizerLimits == {5, 193, MaxBound}

FactorQueries == IF fz = NoValue THEN {} ELSE 0..(fz.largestNumber + Beyond)

NextF ==
    \/ \E L \in FactorizerLimits : CallNewPrimeSet(L)
    \/ \E max \in 0..MaxBound : CallFactorizer(max)
    \/ BuildLoop
    \/ BuildAdvance
    \/ InitEnter
    \/ InitOuter
    \/ InitInner
    \/ InitAfterCall
    \/ InitAfter
    \/ \E n \in FactorQueries : CallLargestFactorOf(n)

SpecF == Init /\ [][NextF]_vars

(***************************************************************************)
(* Reference definitions: primality and prime factors by trial division    *)
(***************************************************************************)
RootCeil(n) == CHOOSE k \in 0..n : k * k >= n

TrialPrime(n) == n >= 2 /\ \A d \in 2..RootCeil(n) : d = n \/ n % d # 0

\* for n >= 2
SmallestPrimeFactor(n) == CHOOSE d \in 2..n : n % d = 0

\* for n >= 2
LargestPrimeFactor(n) == Max({d \in 2..n : n % d = 0 /\ TrialPrime(d)})

Called(op) == res # NoValue /\ res.op = op

\* past every number a set or a factorizer of the model reaches
ReferenceMax == MaxLimit + MaxBound + 4 * WordBits

RECURSIVE TrialPrimesIn(_, _)
TrialPrimesIn(lo, hi) ==
    IF lo > hi
    THEN <<>>
    ELSE IF lo = hi
         THEN IF TrialPrime(lo) THEN <<lo>> ELSE <<>>
         ELSE LET mid == (lo + hi) \div 2
              IN  TrialPrimesIn(lo, mid) \o TrialPrimesIn(mid + 1, hi)

\* the primes by trial division, ascending
ReferencePrimes == TrialPrimesIn(0, ReferenceMax)

InInterval(lo, hi, p) == lo <= p /\ p <= hi

\* the primes p with start <= p <= LargestPrime(), ascending
PrimesOfSetFrom(start) ==
    SelectSeq(ReferencePrimes, LAMBDA p : InInterval(start, LargestPrime(set), p))

Elements(q) == {q[k] : k \in DOMAIN q}

\* the primes by trial division up to ReferenceMax, as a set
ReferencePrimeSet == Elements(ReferencePrimes)

(***************************************************************************)
(* Claims                                                                  *)
(***************************************************************************)
\* C1: for every n in [0, LargestNumber()], IsPrime(n) is true exactly when n is
\* prime by trial division, the quick-check path, even n, 0 and 1 included.
C1_IsPrimeAgreesWithTrialDivision ==
    (Called("IsPrime") /\ res.n <= LargestNumber(set)) =>
        res.ret = Returned(TrialPrime(res.n))

\* C4: the values Next() yields on Iterator(0) are strictly ascending, start with
\* 2, each satisfy IsPrime, and once Next() has returned not-found they are all the
\* primes up to LargestPrime(), the last being LargestPrime().
C4_IterationFromZero ==
    (it # NoValue /\ it.start = 0) =>
        /\ \A k \in 1..(Len(yielded) - 1) : yielded[k] < yielded[k + 1]
        /\ Len(yielded) >= 1 => yielded[1] = 2
        /\ \A k \in DOMAIN yielded : IsPrime(set, yielded[k]) = Returned(TRUE)
        /\ it.done =>
              /\ Elements(yielded) = Elements(PrimesOfSetFrom(0))
              /\ yielded[Len(yielded)] = LargestPrime(set)

C4_Witness ==
    it # NoValue /\ it.start = 0 /\ it.done /\ Len(yielded) > 40

\* C5: for every start, the values Iterator(start) yields are the primes p with
\* start <= p <= LargestPrime() in ascending order, none skipped or repeated: the
\* k-th value yielded is the k-th such prime, and the iterator ends after the last.
C5_IterationFromStart ==
    it # NoValue =>
        LET expected == PrimesOfSetFrom(it.start)
        IN  /\ Len(yielded) <= Len(expected)
            /\ yielded = SubSeq(expected, 1, Len(yielded))
            /\ it.done => yielded = expected

\* a start divisible by 3 whose iteration ran to its end, and a start past the
\* largest prime
C5_Witness ==
    /\ it # NoValue /\ it.done
    /\ \/ it.start > 4 /\ it.start % 3 = 0 /\ Len(yielded) >= 2
       \/ it.start = LargestPrime(set) + 1 /\ yielded = <<>>

\* C6: the set NewPrimeSet(L) returns reaches at least up to L: the bit index of L
\* is inside the vector and LargestNumber() >= L.
C6_SetReachesLimit ==
    Constructed =>
        /\ InRange(set.bits, numberToIndex(limit))
        /\ LargestNumber(set) >= limit

\* C7: for every n >= 1, a value SmallestFactorOf(n) returns with found = true is
\* the smallest prime factor of n.
C7_SmallestFactorIsSmallestPrimeFactor ==
    (Called("SmallestFactorOf") /\ res.n >= 1 /\ res.ret.found) =>
        /\ res.n >= 2
        /\ res.ret.value = SmallestPrimeFactor(res.n)

\* C9: IsPrime(n) returns a boolean for every n, without a runtime failure.
C9_IsPrimeNeverFails ==
    Called("IsPrime") => ~res.ret.panic

\* C10 as stated: SmallestFactorOf(n) returns not-found for every n whose smallest
\* prime factor is greater than LargestNumber().
C10_NotFoundBeyondRange ==
    (Called("SmallestFactorOf") /\ res.n >= 2
        /\ SmallestPrimeFactor(res.n) > LargestNumber(set)) => ~res.ret.found

\* C10 as amended: SmallestFactorOf(n) returns not-found for every n whose smallest
\* prime factor is greater than LargestNumber(), except when n is itself prime and
\* ceil(sqrt(n)) <= LargestNumber(): then it returns (n, true).
C10_NotFoundBeyondRangeUnlessPrime ==
    (Called("SmallestFactorOf") /\ res.n >= 2
        /\ SmallestPrimeFactor(res.n) > LargestNumber(set)) =>
        IF TrialPrime(res.n) /\ RootCeil(res.n) <= LargestNumber(set)
        THEN res.ret = [value |-> res.n, found |-> TRUE]
        ELSE ~res.ret.found

\* a composite number whose factors all lie past the set
C10_Witness ==
    /\ Called("SmallestFactorOf") /\ res.n >= 2
    /\ SmallestPrimeFactor(res.n) > LargestNumber(set)
    /\ ~TrialPrime(res.n)
    /\ ~res.ret.found

\* m is a composite number coprime to 6
CompositeCandidate(m) == m >= 5 /\ m % 2 # 0 /\ m % 3 # 0 /\ ~TrialPrime(m)

\* C2: for a factorizer with bound M built from a set constructed with a limit >= M,
\* LargestFactorOf(m) returns found = true and the maximum prime factor of m for
\* every composite m <= M coprime to 6.
C2_LargestFactorOfComposite ==
    (Called("LargestFactorOf") /\ limit >= fz.largestNumber
        /\ CompositeCandidate(res.n) /\ res.n <= fz.largestNumber) =>
        res.ret = [value |-> LargestPrimeFactor(res.n), found |-> TRUE]

\* a composite marked at the second level of the recursion: 245 = 7 * 5 * 7
C2_Witness ==
    /\ Called("LargestFactorOf") /\ limit >= fz.largestNumber
    /\ CompositeCandidate(res.n) /\ res.n <= fz.largestNumber
    /\ \E q \in 5..res.n : TrialPrime(q) /\ res.n % (q * q) = 0 /\ res.n \div (q * q) \in 5..(q - 1)
    /\ res.ret.found

\* C3: with set := NewPrimeSet(M) and factorizer := set.Factorizer(M), M >= 5,
\* LargestFactorOf(p) returns (p, true) for every prime p <= M.
C3_LargestFactorOfPrime ==
    (Called("LargestFactorOf") /\ limit = fz.largestNumber /\ limit >= 5
        /\ TrialPrime(res.n) /\ res.n <= fz.largestNumber) =>
        res.ret = [value |-> res.n, found |-> TRUE]

\* C8: for a factorizer with bound M built from a set with LargestNumber() >= M and
\* every n >= 1, a value LargestFactorOf(n) returns with found = true is the largest
\* prime factor of n.
C8_LargestFactorIsLargestPrimeFactor ==
    (Called("LargestFactorOf") /\ LargestNumber(set) >= fz.largestNumber
        /\ res.n >= 1 /\ res.ret.found) =>
        /\ res.n >= 2
        /\ res.ret.value = LargestPrimeFactor(res.n)

\* the same for n >= 2: LargestFactorOf(1) = (2, true) is all that fails
LargestFactorAboveOne ==
    (Called("LargestFactorOf") /\ LargestNumber(set) >= fz.largestNumber
        /\ res.n >= 2 /\ res.ret.found) =>
        res.ret.value = LargestPrimeFactor(res.n)

\* C11: after NewPrimeSet(L) returns, every bit i of the vector, the padding bits
\* past numberToIndex(L) included, is set if and only if indexToNumber(i) is prime.
C11_BitSetIffPrime ==
    Constructed =>
        \A i \in 0..(len(set.bits) * WordBits - 1) :
            getBit(set.bits, i) <=> indexToNumber(i) \in ReferencePrimeSet

\* a set of two words in which the sieve cleared 25 = 5 * 5 and 377 = 13 * 29 and
\* kept 383, the last padding bit
C11_Witness ==
    /\ Constructed
    /\ len(set.bits) = 2
    /\ ~getBit(set.bits, numberToIndex(25))
    /\ ~getBit(set.bits, numberToIndex(377))
    /\ getBit(set.bits, numberToIndex(383))

\* the largest prime factor by trial division, of every number from 2 to ReferenceMax
ReferenceLargestFactor == [n \in 2..ReferenceMax |-> LargestPrimeFactor(n)]

\* the builder of a factorizer whose bound the set covers
BuildingCovered == fb # NoValue /\ LargestNumber(set) >= fb.max

\* C12: during build() with the set covering the bound M, no table entry is written
\* twice; a prime is written by the loop of build() and a composite by
\* initRecursively, each while its entry is still unwritten and, for the composite,
\* under stack[0] equal to its largest prime factor; and when build() ends every
\* entry of a candidate >= 5 has been written once and is not 0.
C12_EachEntryWrittenOnce ==
    BuildingCovered =>
        /\ \A i \in DOMAIN fb.writes :
              /\ fb.writes[i] <= 1
              /\ fb.writes[i] = 1 => fb.factors[i] = ReferenceLargestFactor[indexToNumber(i)]
              /\ fb.writes[i] = 0 => fb.factors[i] = 0
        /\ (Building("build") /\ buildContinues(fb)) =>
              /\ fb.p \in ReferencePrimeSet
              /\ fb.writes[numberToIndex(fb.p)] = 0
        /\ (InFrame("inner") /\ top.i <= fb.max) =>
              /\ CompositeCandidate(top.i)
              /\ fb.stack[0] = ReferenceLargestFactor[top.i]
              /\ fb.writes[numberToIndex(top.i)] = 0
        /\ Building("done") =>
              \A i \in 1..numberToIndex(fb.max) : fb.writes[i] = 1 /\ fb.factors[i] # 0

\* a finished build that went through the second level of the recursion:
\* 245 = 7 * 5 * 7 is marked with 7
C12_Witness ==
    /\ BuildingCovered
    /\ Building("done")
    /\ fb.max >= 245
    /\ fb.writes[numberToIndex(245)] = 1
    /\ fb.factors[numberToIndex(245)] = 7

\* the caller's next prime, or 5 for the call from build()
PushedStart == IF Len(frames) = 1 THEN 5 ELSE frames[Len(frames) - 1].next

\* the recursion stack discipline of build(), but for the range of sp
StackDiscipline ==
    /\ fb.pc # "panic"
    /\ DOMAIN fb.stack = 0..fb.maxDepth
    /\ Building("init") =>
          /\ fb.stack[0] = fb.p
          /\ fb.sp = IF top.pc = "returned" THEN Len(frames) + 1 ELSE Len(frames)
    /\ InFrame("enter") =>
          /\ fb.stack[fb.sp] = PushedStart
          /\ IteratorNext(set, Iterator(set, fb.stack[fb.sp])).value = fb.stack[fb.sp]
    /\ ~Building("init") => fb.sp = 1

\* C13 as stated: throughout build(), 1 <= sp <= maxDepth, every stack write stays
\* inside the maxDepth+1 slots, stack[0] equals p during a top-level
\* initRecursively(p), stack[sp] on entry to a level is the first prime that level
\* iterates, sp is back at its value once a recursive call has returned and popped,
\* and sp = 1 whenever control is in build().
C13_StackDisciplineAnyBound ==
    fb # NoValue =>
        /\ 1 <= fb.sp /\ fb.sp <= fb.maxDepth
        /\ StackDiscipline

\* C13 as amended: the same for every bound M >= 2; for M <= 1 maxDepth is 0 while
\* sp stays 1, and build() uses neither the stack nor initRecursively.
C13_StackDisciplineFromTwo ==
    fb # NoValue =>
        /\ fb.max >= 2 => (1 <= fb.sp /\ fb.sp <= fb.maxDepth)
        /\ fb.max <= 1 => (fb.sp = 1 /\ fb.maxDepth = 0 /\ ~Building("init"))
        /\ StackDiscipline

\* the second level of the recursion, entered for 35 = 7 * 5 with 7 pushed
C13_Witness ==
    /\ InFrame("enter")
    /\ Len(frames) = 2
    /\ fb.sp = 2
    /\ fb.stack[0] = 7
    /\ fb.stack[2] = 7
    /\ top.base = 35

(***************************************************************************)
(* The index mapping on its own: one call of numberToIndex (in both of its *)
(* forms) or of indexToNumber, each followed by the other function on the  *)
(* result                                                                  *)
(***************************************************************************)
IndexInputs == 0..ReferenceMax

CallNumberToIndex(n) ==
    /\ res = NoValue
    /\ res' = [op |-> "numberToIndex", n |-> n, ret |-> numberToIndex(n),
               shifted |-> numberToIndexShifted(n),
               back |-> indexToNumber(numberToIndex(n))]
    /\ UNCHANGED <<limit, set, it, yielded, fb, frames, fz>>

CallIndexToNumber(i) ==
    /\ res = NoValue
    /\ res' = [op |-> "indexToNumber", n |-> i, ret |-> indexToNumber(i),
               back |-> numberToIndex(indexToNumber(i))]
    /\ UNCHANGED <<limit, set, it, yielded, fb, frames, fz>>

NextIndex ==
    \/ \E n \in IndexInputs : CallNumberToIndex(n)
    \/ \E i \in IndexInputs : CallIndexToNumber(i)

SpecIndex == Init /\ [][NextIndex]_vars

\* C14: indexToNumber(numberToIndex(n)) = n for every n >= 5 not divisible by 2 or
\* 3, numberToIndex(indexToNumber(i)) = i for every index i >= 1, neither function
\* decreases from an argument to the next, and the n/2 and n>>1 forms of
\* numberToIndex give the same result.
C14_IndexMappingInverse ==
    /\ Called("numberToIndex") =>
          /\ (res.n >= 5 /\ res.n % 2 # 0 /\ res.n % 3 # 0) => res.back = res.n
          /\ res.ret <= numberToIndex(res.n + 1)
          /\ res.shifted = res.ret
    /\ Called("indexToNumber") =>
          /\ res.n >= 1 => res.back = res.n
          /\ res.ret <= indexToNumber(res.n + 1)

\* 193, the candidate at index 64
C14_Witness ==
    /\ Called("numberToIndex")
    /\ res.n = 193
    /\ res.ret = 64
    /\ res.shifted = 64
    /\ res.back = 193

====
